---- MODULE Spec2Model ----
(***************************************************************************)
(* Model of src/app.py: a Flask proxy in front of the Microsoft Graph      *)
(* (SharePoint) REST API.  Two route handlers, POST /upload and            *)
(* GET /fetch/<filepath>, call create_folder_by_path, upload_file,         *)
(* fetch_file and clean_sharepoint_path.                                   *)
(*                                                                         *)
(* Strings are sequences of one-character strings, so that replace, strip, *)
(* split, join and rsplit are computed as Python computes them.  A value   *)
(* that is never subjected to a string operation and must differ from      *)
(* every character string (the -1 sentinel, an unbound local, an absent    *)
(* JSON field, a fixed message) is a one-element sequence whose element    *)
(* is the whole literal.                                                   *)
(***************************************************************************)
EXTENDS Integers, Sequences, FiniteSets, TLC

VARIABLES
    reqs,       \* the requests being handled (one per worker thread)
    form_paths, \* the values of the form field 'path' the clients submit
    folders,    \* provider state: item paths of the folders that exist
    proc,       \* per request: position and locals of the handler
    calls,      \* per request: the storage-provider calls issued, in order
    response,   \* per request: the HTTP response returned by the handler
    npc, raw, once, twice   \* harness applying clean_sharepoint_path

vars == <<reqs, form_paths, folders, proc, calls, response, npc, raw, once, twice>>

---------------------------------------------------------------------------
(* Python string operations *)

\* str.replace(old, new): leftmost, non-overlapping, one pass
RECURSIVE Replace(_, _, _)
Replace(s, old, new) ==
    IF Len(s) < Len(old) THEN s
    ELSE IF SubSeq(s, 1, Len(old)) = old
         THEN new \o Replace(SubSeq(s, Len(old) + 1, Len(s)), old, new)
         ELSE <<s[1]>> \o Replace(Tail(s), old, new)

RECURSIVE LStrip(_, _)
LStrip(s, ch) ==
    IF s # <<>> /\ s[1] = ch THEN LStrip(Tail(s), ch) ELSE s

RECURSIVE RStrip(_, _)
RStrip(s, ch) ==
    IF s # <<>> /\ s[Len(s)] = ch THEN RStrip(SubSeq(s, 1, Len(s) - 1), ch) ELSE s

\* str.strip(ch)
Strip(s, ch) == RStrip(LStrip(s, ch), ch)

\* str.split(sep) for a one-character separator: "" splits to [""]
RECURSIVE Split(_, _)
Split(s, sep) ==
    IF \A k \in 1..Len(s) : s[k] # sep THEN <<s>>
    ELSE LET k == CHOOSE j \in 1..Len(s) :
                      s[j] = sep /\ \A h \in 1..(j - 1) : s[h] # sep
         IN  <<SubSeq(s, 1, k - 1)>> \o Split(SubSeq(s, k + 1, Len(s)), sep)

\* sep.join(parts)
RECURSIVE Join(_, _)
Join(parts, sep) ==
    IF parts = <<>> THEN <<>>
    ELSE IF Len(parts) = 1 THEN parts[1]
    ELSE parts[1] \o <<sep>> \o Join(Tail(parts), sep)

\* filter(None, parts)
FilterNone(parts) == SelectSeq(parts, LAMBDA p : p # <<>>)

\* str.rsplit(sep, 1)
RSplit1(s, sep) ==
    IF \A k \in 1..Len(s) : s[k] # sep THEN <<s>>
    ELSE LET k == CHOOSE j \in 1..Len(s) :
                      s[j] = sep /\ \A h \in (j + 1)..Len(s) : s[h] # sep
         IN  <<SubSeq(s, 1, k - 1), SubSeq(s, k + 1, Len(s))>>

ContentSuffix == <<":","/","c","o","n","t","e","n","t">>

clean_sharepoint_path(path) ==
    Join(FilterNone(Split(Strip(Replace(path, ContentSuffix, <<>>), "/"), "/")), "/")

---------------------------------------------------------------------------
(* Program constants *)

\* "https://graph.microsoft.com/v1.0/sites/"
GraphSites == <<"h","t","t","p","s",":","/","/","g","r","a","p","h",".","m","i","c","r","o","s","o","f","t",".","c","o","m","/","v","1",".","0","/","s","i","t","e","s","/">>

\* the configured site id (an opaque string from the environment)
SP_SITE_ID == <<"s","1">>

\* "drive/root:", the initial current_path
DriveRoot == <<"d","r","i","v","e","/","r","o","o","t",":">>

ChildrenSuffix == <<":","/","c","h","i","l","d","r","e","n">>

\* the integer -1 returned on failure: equal to no string
FAIL == <<"-1">>

\* create_url before its first assignment
Unbound == <<"<unbound>">>

\* a JSON field that is not in the body
Absent == <<"<absent>">>

\* str(e) of the exceptions the handlers can see
TokenError == <<"'access_token'">>
TransportError == <<"ConnectionError">>
JsonError == <<"JSONDecodeError">>
UnboundLocalError == <<"local variable 'create_url' referenced before assignment">>

MsgNoFile == <<"No file provided">>
MsgEmptyFilename == <<"Empty filename">>
MsgFolderFailed == <<"Failed to create folder structure">>
MsgUploadFailed == <<"Failed to upload file">>
MsgUploaded == <<"File uploaded successfully">>
MsgFetchFailed == <<"Failed to fetch file">>

\* the status codes the code takes for success
OkStatuses == {200, 201}

---------------------------------------------------------------------------
(* Bounds and inputs *)

MaxDepth == 3
ConcDepth == 2
MaxPieces == 4

SegNames == <<"x", "y", "z", "u", "v">>

\* the canonical path of depth d: "", "x", "x/y", "x/y/z", ...
RECURSIVE CanonPath(_)
CanonPath(d) ==
    IF d = 0 THEN <<>>
    ELSE IF d = 1 THEN <<SegNames[1]>>
    ELSE CanonPath(d - 1) \o <<"/", SegNames[d]>>

\* the item path of the folder at depth d: "/x", "/x/y", ...
RECURSIVE ItemPath(_)
ItemPath(d) == IF d = 0 THEN <<>> ELSE ItemPath(d - 1) \o <<"/", SegNames[d]>>

\* the provider's folders when exactly the first k segments exist
Prefixes(k) == {ItemPath(d) : d \in 1..k}

FolderStates == {Prefixes(k) : k \in 0..MaxDepth}

\* raw values of the form field 'path': canonical ones and one that is not
UploadRawPaths ==
    {CanonPath(d) : d \in 0..MaxDepth} \cup {<<"/","x","/","/","y","/">>}

Filenames == {<<"f">>}

\* filepath values of GET /fetch/<filepath>
FetchFilepaths ==
    { <<"f">>,
      <<"x","/","f">>,
      <<"x","/","y","/","f">>,
      <<"x","/",":","/","c","o","n","t","e","n","t","/","f">>,
      <<"x",":","/",":","/","c","o","n","t","e","n","t","c","o","n","t","e","n","t","/","f">> }

\* raw paths for the normalizer: up to MaxPieces pieces
Pieces == {<<"a">>, <<"/">>, <<":">>, <<"c","o","n","t","e","n","t">>, ContentSuffix}

RECURSIVE RawPaths(_)
RawPaths(n) ==
    IF n = 0 THEN {<<>>}
    ELSE LET shorter == RawPaths(n - 1)
         IN  shorter \cup {p \o q : p \in shorter, q \in Pieces}

---------------------------------------------------------------------------
(* The storage provider, seen through its REST contract *)

RootUrl == GraphSites \o SP_SITE_ID \o <<"/">> \o DriveRoot

\* GET on an item: 200 when the folder exists, 404 when it does not
ProviderExists(url) == \E p \in folders : url = RootUrl \o p

\* the parent folder a POST to <parent>:/children addresses, when it exists
ProviderParents(url) ==
    {p \in folders \cup {<<>>} : url = RootUrl \o p \o ChildrenSuffix}

Digits == <<"1", "2", "3", "4", "5", "6", "7", "8", "9">>

\* conflictBehavior "rename": the requested name when it is free, else the
\* first free "<name> <k>"
ProviderName(parent, name) ==
    IF (parent \o <<"/">> \o name) \notin folders THEN name
    ELSE LET k == CHOOSE j \in 1..Len(Digits) :
                      /\ (parent \o <<"/">> \o name \o <<" ", Digits[j]>>) \notin folders
                      /\ \A h \in 1..(j - 1) :
                            (parent \o <<"/">> \o name \o <<" ", Digits[h]>>) \in folders
         IN  name \o <<" ", Digits[k]>>

---------------------------------------------------------------------------
(* Values of the handlers *)

NoResponse ==
    [code |-> 0, error |-> Absent, message |-> Absent, path |-> Absent,
     download_url |-> Absent, filename |-> Absent]

\* jsonify({'error': msg}), code
ErrorResponse(code, msg) == [NoResponse EXCEPT !.code = code, !.error = msg]

\* a handler that answers 500 without the exception's message
ExceptionResponse_generic(msg) == ErrorResponse(500, <<"Internal Server Error">>)

\* except Exception as e: return jsonify({'error': str(e)}), 500
ExceptionResponse(msg) == ErrorResponse(500, msg)

\* jsonify({'message': ..., 'path': result}), 201
UploadedResponse(result) ==
    [NoResponse EXCEPT !.code = 201, !.message = MsgUploaded, !.path = result]

\* jsonify({'download_url': ..., 'filename': ..., 'path': ...}), 200
FetchedResponse(download_url, filename, path) ==
    [NoResponse EXCEPT !.code = 200, !.download_url = download_url,
                       !.filename = filename, !.path = path]

IdleProc ==
    [pc |-> "idle", kind |-> "none", path |-> Absent, filename |-> Absent,
     parts |-> <<>>, i |-> 0, current_path |-> Absent, create_url |-> Unbound,
     folder_path |-> Absent, download_url |-> Absent, printed |-> "",
     raised |-> Absent, filepath |-> Absent, folders0 |-> {}]

\* one storage-provider call: status 0 stands for a call that raised
Call(op, url, name, status, created) ==
    [op |-> op, url |-> url, name |-> name, status |-> status, created |-> created,
     body |-> "none"]

\* the metadata GET of fetch_file and the kind of body in its answer
MetadataCall(url, status, body) ==
    [Call("GET", url, Absent, status, Absent) EXCEPT !.body = body]

---------------------------------------------------------------------------
(* create_folder_by_path *)

\* for part in parts: if not part: continue -- the next index with a part
RECURSIVE NextPart(_, _)
NextPart(parts, i) ==
    IF i > Len(parts) THEN i
    ELSE IF parts[i] = <<>> THEN NextPart(parts, i + 1)
    ELSE i

check_url(current_path, part) ==
    GraphSites \o SP_SITE_ID \o <<"/">> \o current_path \o <<"/">> \o part

create_url(current_path) ==
    GraphSites \o SP_SITE_ID \o <<"/">> \o current_path \o ChildrenSuffix

\* a resolver that does not descend into a folder it found
AdvanceFound_stay(current_path, part) == current_path

\* current_path += f"/{part}" after a lookup that found the folder
AdvanceFound(current_path, part) == current_path \o <<"/">> \o part

\* a resolver that follows the name the provider gave the new folder
AdvanceCreated_renamed(current_path, part, created) ==
    current_path \o <<"/">> \o created

\* current_path += f"/{part}" after a creation; created is the name in the
\* provider's answer, which the code does not read
AdvanceCreated(current_path, part, created) == current_path \o <<"/">> \o part

\* create_url.replace(":/children", f"/{part}:/children")
ReturnHandle(url, part) ==
    Replace(url, ChildrenSuffix, <<"/">> \o part \o ChildrenSuffix)

\* what a failed creation does to the chain: return -1
CreateFailed(p) == [p EXCEPT !.pc = "done", !.folder_path = FAIL]

---------------------------------------------------------------------------
(* upload_file, fetch_file *)

\* file_path = f"{root_path}/{path}/{filename}:/content"
upload_file_path(path, filename) ==
    RootUrl \o <<"/">> \o path \o <<"/">> \o filename \o ContentSuffix

\* file_path = f".../drive/root:/{path}/{filename}"
fetch_file_path(path, filename) ==
    RootUrl \o <<"/">> \o path \o <<"/">> \o filename

DownloadUrl == <<"https://download/f?tempauth=1">>

FetchStatuses == {200, 201, 202, 401, 403, 404, 500}
FetchBodies == {"url", "nourl", "nonjson"}

\* fetch_file without its 404 branch
fetch_outcome_no404(status, body) ==
    IF status = 0 THEN [printed |-> "Error fetching file", value |-> FAIL]
    ELSE IF status = 401 THEN [printed |-> "Authentication failed", value |-> FAIL]
    ELSE IF status = 403 THEN [printed |-> "Permission denied", value |-> FAIL]
    ELSE IF status \notin OkStatuses THEN [printed |-> "Unexpected error", value |-> FAIL]
    ELSE IF body = "nonjson" THEN [printed |-> "Error fetching file", value |-> FAIL]
    ELSE IF body = "nourl" THEN [printed |-> "Download URL not found", value |-> FAIL]
    ELSE [printed |-> "", value |-> DownloadUrl]

\* the status branches of fetch_file and what it prints and returns;
\* status 0 is a GET that raised, caught by the except clause
fetch_outcome(status, body) ==
    IF status = 0 THEN [printed |-> "Error fetching file", value |-> FAIL]
    ELSE IF status = 404 THEN [printed |-> "File not found", value |-> FAIL]
    ELSE IF status = 401 THEN [printed |-> "Authentication failed", value |-> FAIL]
    ELSE IF status = 403 THEN [printed |-> "Permission denied", value |-> FAIL]
    ELSE IF status \notin OkStatuses THEN [printed |-> "Unexpected error", value |-> FAIL]
    ELSE IF body = "nonjson" THEN [printed |-> "Error fetching file", value |-> FAIL]
    ELSE IF body = "nourl" THEN [printed |-> "Download URL not found", value |-> FAIL]
    ELSE [printed |-> "", value |-> DownloadUrl]

---------------------------------------------------------------------------
(* POST /upload *)

Finish(r, p, resp) ==
    /\ proc' = [proc EXCEPT ![r] = [p EXCEPT !.pc = "done"]]
    /\ response' = [response EXCEPT ![r] = resp]

\* an exception leaves the handler through its except clause
Raise(r, msg) == Finish(r, [proc[r] EXCEPT !.raised = msg], ExceptionResponse(msg))

Issue(r, call) == calls' = [calls EXCEPT ![r] = Append(@, call)]

\* upload_file_endpoint up to the call of create_folder_by_path
UploadBegin(r) ==
    /\ r \in reqs
    /\ proc[r].pc = "idle"
    /\ \E has_file \in BOOLEAN, filename \in Filenames \cup {<<>>}, raw_path \in form_paths :
          IF ~has_file
          THEN Finish(r, [proc[r] EXCEPT !.kind = "upload"], ErrorResponse(400, MsgNoFile))
          ELSE IF filename = <<>>
          THEN Finish(r, [proc[r] EXCEPT !.kind = "upload"], ErrorResponse(400, MsgEmptyFilename))
          ELSE /\ proc' = [proc EXCEPT ![r] =
                     [@ EXCEPT !.kind = "upload", !.pc = "cf_header",
                               !.filename = filename,
                               !.path = clean_sharepoint_path(raw_path),
                               !.folders0 = folders]]
               /\ UNCHANGED response
    /\ UNCHANGED <<reqs, form_paths, folders, calls, npc, raw, once, twice>>

\* create_folder_by_path: header, parts, current_path
CfHeader(r) ==
    /\ r \in reqs
    /\ proc[r].pc = "cf_header"
    /\ \E token_ok \in BOOLEAN :
          IF ~token_ok THEN Raise(r, TokenError)
          ELSE /\ proc' = [proc EXCEPT ![r] =
                     [@ EXCEPT !.pc = "cf_loop",
                               !.parts = Split(proc[r].path, "/"),
                               !.current_path = DriveRoot,
                               !.i = NextPart(Split(proc[r].path, "/"), 1)]]
               /\ UNCHANGED response
    /\ UNCHANGED <<reqs, form_paths, folders, calls, npc, raw, once, twice>>

\* one iteration up to the answer of the lookup
CfLookup(r) ==
    LET p == proc[r]
        part == p.parts[p.i]
        url == check_url(p.current_path, part)
    IN
    /\ r \in reqs
    /\ p.pc = "cf_loop"
    /\ p.i <= Len(p.parts)
    /\ \E status \in {IF ProviderExists(url) THEN 200 ELSE 404, 500, 0} :
          /\ Issue(r, Call("GET", url, Absent, status, Absent))
          /\ IF status = 0 THEN Raise(r, TransportError)
             ELSE /\ proc' = [proc EXCEPT ![r] =
                        IF status \in OkStatuses
                        THEN [p EXCEPT !.current_path = AdvanceFound(p.current_path, part),
                                       !.i = NextPart(p.parts, p.i + 1)]
                        ELSE [p EXCEPT !.pc = "cf_create"]]
                  /\ UNCHANGED response
    /\ UNCHANGED <<reqs, form_paths, folders, npc, raw, once, twice>>

\* the else branch of the iteration: the creation and its answer
CfCreate(r) ==
    LET p == proc[r]
        part == p.parts[p.i]
        url == create_url(p.current_path)
        q == [p EXCEPT !.create_url = url]
    IN
    /\ r \in reqs
    /\ p.pc = "cf_create"
    /\ \E out \in {"created", "rejected", "gateway", "raise"} :
          CASE out = "created" ->
                 \E parent \in ProviderParents(url) :
                    LET created == ProviderName(parent, part) IN
                    /\ folders' = folders \cup {parent \o <<"/">> \o created}
                    /\ Issue(r, Call("POST", url, part, 201, created))
                    /\ proc' = [proc EXCEPT ![r] =
                          [q EXCEPT !.pc = "cf_loop",
                                    !.current_path = AdvanceCreated(p.current_path, part, created),
                                    !.i = NextPart(p.parts, p.i + 1)]]
                    /\ UNCHANGED response
            [] out = "rejected" ->
                 \* an error status with a JSON body: print it, return -1
                 /\ Issue(r, Call("POST", url, part, 500, Absent))
                 /\ Finish(r, CreateFailed(q), ErrorResponse(500, MsgFolderFailed))
                 /\ UNCHANGED folders
            [] out = "gateway" ->
                 \* an error status whose body is not JSON: create_response.json() raises
                 /\ Issue(r, Call("POST", url, part, 502, Absent))
                 /\ Finish(r, [q EXCEPT !.raised = JsonError], ExceptionResponse(JsonError))
                 /\ UNCHANGED folders
            [] out = "raise" ->
                 /\ Issue(r, Call("POST", url, part, 0, Absent))
                 /\ Finish(r, [q EXCEPT !.raised = TransportError],
                           ExceptionResponse(TransportError))
                 /\ UNCHANGED folders
    /\ UNCHANGED <<reqs, form_paths, npc, raw, once, twice>>

\* the return statement after the loop
CfReturn(r) ==
    LET p == proc[r]
        part == p.parts[Len(p.parts)]
    IN
    /\ r \in reqs
    /\ p.pc = "cf_loop"
    /\ p.i > Len(p.parts)
    /\ IF p.create_url = Unbound
       THEN Raise(r, UnboundLocalError)
       ELSE /\ proc' = [proc EXCEPT ![r] =
                  [p EXCEPT !.pc = "upload_file",
                            !.folder_path = ReturnHandle(p.create_url, part)]]
            /\ UNCHANGED response
    /\ UNCHANGED <<reqs, form_paths, folders, calls, npc, raw, once, twice>>

\* upload_file and the rest of upload_file_endpoint
UploadFile(r) ==
    LET p == proc[r]
        file_path == upload_file_path(p.path, p.filename)
    IN
    /\ r \in reqs
    /\ p.pc = "upload_file"
    /\ \E token_ok \in BOOLEAN :
          IF ~token_ok THEN Raise(r, TokenError) /\ UNCHANGED calls
          ELSE \E status \in {200, 201, 500, 0} :
                  /\ Issue(r, Call("PUT", file_path, Absent, status, Absent))
                  /\ IF status = 0 THEN Raise(r, TransportError)
                     ELSE IF status \in OkStatuses
                     THEN Finish(r, p, UploadedResponse(file_path))
                     ELSE Finish(r, p, ErrorResponse(500, MsgUploadFailed))
    /\ UNCHANGED <<reqs, form_paths, folders, npc, raw, once, twice>>

---------------------------------------------------------------------------
(* GET /fetch/<filepath> *)

\* if download_url == -1: 404, else 200 with the three fields
fetch_response(download_url, filename, path) ==
    IF download_url = FAIL THEN ErrorResponse(404, MsgFetchFailed)
    ELSE FetchedResponse(download_url, filename, path)

\* fetch_file_endpoint up to the call of fetch_file
FetchBegin(r) ==
    /\ r \in reqs
    /\ proc[r].pc = "idle"
    /\ \E filepath \in FetchFilepaths :
          LET path_parts == RSplit1(filepath, "/")
              filename == path_parts[Len(path_parts)]
              path == IF Len(path_parts) > 1 THEN path_parts[1] ELSE <<>>
          IN  proc' = [proc EXCEPT ![r] =
                  [@ EXCEPT !.kind = "fetch", !.pc = "fetch_file",
                            !.filepath = filepath,
                            !.filename = filename,
                            !.path = clean_sharepoint_path(path),
                            !.folders0 = folders]]
    /\ UNCHANGED <<reqs, form_paths, folders, calls, response, npc, raw, once, twice>>

\* fetch_file and the rest of fetch_file_endpoint
FetchFile(r) ==
    LET p == proc[r]
        path == clean_sharepoint_path(p.path)
        file_path == fetch_file_path(path, p.filename)
        Return(q, out) ==
            Finish(r, [q EXCEPT !.printed = out.printed, !.download_url = out.value],
                   fetch_response(out.value, p.filename, p.path))
    IN
    /\ r \in reqs
    /\ p.pc = "fetch_file"
    /\ \E token_ok \in BOOLEAN :
          IF ~token_ok
          THEN /\ Return([p EXCEPT !.raised = TokenError], fetch_outcome(0, "nonjson"))
               /\ UNCHANGED calls
          ELSE \/ /\ Issue(r, MetadataCall(file_path, 0, "none"))
                  /\ Return([p EXCEPT !.raised = TransportError], fetch_outcome(0, "nonjson"))
               \/ \E status \in FetchStatuses, body \in FetchBodies :
                     /\ Issue(r, MetadataCall(file_path, status, body))
                     /\ Return([p EXCEPT !.raised =
                                   IF status \in OkStatuses /\ body = "nonjson"
                                   THEN JsonError ELSE Absent],
                               fetch_outcome(status, body))
    /\ UNCHANGED <<reqs, form_paths, folders, npc, raw, once, twice>>

---------------------------------------------------------------------------
(* clean_sharepoint_path applied to a raw path, and to its own result *)

NormOnce ==
    /\ npc = "raw"
    /\ once' = clean_sharepoint_path(raw)
    /\ npc' = "once"
    /\ UNCHANGED <<reqs, form_paths, folders, proc, calls, response, raw, twice>>

NormTwice ==
    /\ npc = "once"
    /\ twice' = clean_sharepoint_path(once)
    /\ npc' = "twice"
    /\ UNCHANGED <<reqs, form_paths, folders, proc, calls, response, raw, once>>

---------------------------------------------------------------------------
(* Specifications *)

Workers == {1, 2}

InitRequests(rs) ==
    /\ reqs = rs
    /\ proc = [r \in rs |-> IdleProc]
    /\ calls = [r \in rs |-> <<>>]
    /\ response = [r \in rs |-> NoResponse]

InitNoNorm == npc = "off" /\ raw = <<>> /\ once = Absent /\ twice = Absent

\* one request, any submitted path, against any of the folder states
Init ==
    /\ InitRequests({1})
    /\ form_paths = UploadRawPaths
    /\ folders \in FolderStates
    /\ InitNoNorm

\* two upload requests for the same path, handled by two workers
InitConc ==
    /\ InitRequests(Workers)
    /\ \E d \in 1..ConcDepth : form_paths = {CanonPath(d)}
    /\ \E k \in 0..ConcDepth : folders = Prefixes(k)
    /\ InitNoNorm

\* the normalizer alone
InitNorm ==
    /\ InitRequests({})
    /\ form_paths = {}
    /\ folders = {}
    /\ npc = "raw" /\ raw \in RawPaths(MaxPieces) /\ once = Absent /\ twice = Absent

Next ==
    \/ \E r \in Workers : UploadBegin(r)
    \/ \E r \in Workers : CfHeader(r)
    \/ \E r \in Workers : CfLookup(r)
    \/ \E r \in Workers : CfCreate(r)
    \/ \E r \in Workers : CfReturn(r)
    \/ \E r \in Workers : UploadFile(r)
    \/ \E r \in Workers : FetchBegin(r)
    \/ \E r \in Workers : FetchFile(r)

NextConc ==
    \/ \E r \in Workers : UploadBegin(r)
    \/ \E r \in Workers : CfHeader(r)
    \/ \E r \in Workers : CfLookup(r)
    \/ \E r \in Workers : CfCreate(r)
    \/ \E r \in Workers : CfReturn(r)
    \/ \E r \in Workers : UploadFile(r)

NextNorm == NormOnce \/ NormTwice

Spec == Init /\ [][Next]_vars

SpecConc == InitConc /\ [][NextConc]_vars

SpecNorm == InitNorm /\ [][NextNorm]_vars

---------------------------------------------------------------------------
(* Vocabulary of the properties *)

\* the depth of a canonical upload path
DepthOf(path) == CHOOSE d \in 0..(MaxDepth + 1) : CanonPath(d) = path

\* the handle scoped to the folder at depth d
ScopedHandle(d) == RootUrl \o ItemPath(d) \o ChildrenSuffix

\* the locator <root>/<path>/<filename>:/content
Locator(path, filename) ==
    RootUrl \o <<"/">> \o path \o <<"/">> \o filename \o ContentSuffix

Uploads == {r \in reqs : proc[r].kind = "upload"}
Fetches == {r \in reqs : proc[r].kind = "fetch"}

\* the calls of the Folder Resolver
ResolverCalls(r) == SelectSeq(calls[r], LAMBDA c : c.op # "PUT")

\* the resolver has left its loop through the return statement
ResolverReturned(r) ==
    \/ proc[r].folder_path \notin {Absent, FAIL}
    \/ proc[r].raised = UnboundLocalError

\* the environment has failed no step of request r: the token was issued,
\* no call raised, every creation and the PUT answered 200 or 201
NoStepFailed(r) ==
    /\ proc[r].raised \notin {TokenError, TransportError, JsonError}
    /\ \A n \in 1..Len(calls[r]) :
          /\ calls[r][n].status # 0
          /\ calls[r][n].op \in {"POST", "PUT"} => calls[r][n].status \in OkStatuses

\* every lookup was answered by the state of the folders (200 or 404)
LookupsFaithful(r) ==
    \A n \in 1..Len(calls[r]) :
       calls[r][n].op = "GET" => calls[r][n].status \in {200, 404}

IsPrefix(s, t) == Len(s) <= Len(t) /\ s = SubSeq(t, 1, Len(s))

\* the calls for the path of depth d whose first k folders exist: a lookup
\* per segment and, for a missing segment, its creation right after
RECURSIVE ExpectedCalls(_, _)
ExpectedCalls(d, k) ==
    IF d = 0 THEN <<>>
    ELSE ExpectedCalls(d - 1, k) \o
         (IF d <= k
          THEN <<Call("GET", RootUrl \o ItemPath(d), Absent, 200, Absent)>>
          ELSE <<Call("GET", RootUrl \o ItemPath(d), Absent, 404, Absent),
                 Call("POST", RootUrl \o ItemPath(d - 1) \o ChildrenSuffix,
                      <<SegNames[d]>>, 201, <<SegNames[d]>>)>>)

---------------------------------------------------------------------------
(* Properties *)

\* C1: an upload with a file and a non-empty filename, whose folder steps
\* and PUT are all answered 200/201, is answered 201 with the locator
\* <root>/<path>/<filename>:/content as path; a 500 is answered only when a
\* creation or the PUT failed.
C1_UploadSucceeds ==
    \A r \in Uploads :
       (proc[r].pc = "done" /\ response[r].code # 400 /\ NoStepFailed(r)) =>
          response[r] = UploadedResponse(Locator(proc[r].path, proc[r].filename))

\* C2: a resolver that returns after every segment was found or created
\* returns the handle scoped to the last segment of the path.
C2_ReturnsDeepestHandle ==
    \A r \in Uploads :
       ResolverReturned(r) =>
          proc[r].folder_path = ScopedHandle(DepthOf(proc[r].path))

\* C3: for the empty path the resolver issues no provider call and returns
\* the root handle, not a failure and not an exception.
C3_EmptyPathReturnsRoot ==
    \A r \in Uploads :
       (proc[r].path = <<>> /\ ResolverReturned(r)) =>
          /\ ResolverCalls(r) = <<>>
          /\ proc[r].raised = Absent
          /\ proc[r].folder_path \in {RootUrl, ScopedHandle(0)}

\* C4: when the first k segments of the path exist and the others do not,
\* the resolver issues one lookup per segment and one creation per missing
\* segment, left to right, each creation between its own lookup and the
\* next one, and returns the handle scoped to the last segment.
C4_LookupThenCreateInOrder ==
    \A r \in Uploads :
       \A d \in 1..MaxDepth : \A k \in 0..(d - 1) :
          ( /\ proc[r].path = CanonPath(d)
            /\ proc[r].folders0 = Prefixes(k)
            /\ NoStepFailed(r)
            /\ LookupsFaithful(r) ) =>
             /\ IsPrefix(ResolverCalls(r), ExpectedCalls(d, k))
             /\ proc[r].pc \in {"cf_header", "cf_loop", "cf_create"} =>
                   proc[r].folder_path = Absent
             /\ proc[r].pc \in {"upload_file", "done"} =>
                   /\ ResolverCalls(r) = ExpectedCalls(d, k)
                   /\ proc[r].folder_path = ScopedHandle(d)

C4_Witness ==
    \E r \in Uploads :
       /\ proc[r].path = CanonPath(3)
       /\ proc[r].folders0 = Prefixes(1)
       /\ proc[r].pc = "upload_file"
       /\ ResolverCalls(r) = ExpectedCalls(3, 1)
       /\ proc[r].folder_path = ScopedHandle(3)

\* C5: a creation answered with a status other than 200/201 aborts the
\* chain: the resolver returns the failure value, that creation is the last
\* call of the request (no further lookup or creation, no delete, no PUT),
\* the folders created before it stay, and POST /upload answers 500 with an
\* error body.
C5_CreationFailureAborts ==
    \A r \in Uploads :
       \A n \in 1..Len(calls[r]) :
          ( /\ calls[r][n].op = "POST"
            /\ calls[r][n].status \notin OkStatuses \cup {0} ) =>
             /\ proc[r].folder_path = FAIL
             /\ n = Len(calls[r])
             /\ \A m \in 1..Len(calls[r]) : calls[r][m].op \in {"GET", "POST"}
             /\ \A m \in 1..(n - 1) :
                   calls[r][m].op = "POST" =>
                      \E parent \in folders \cup {<<>>} :
                         /\ calls[r][m].url = RootUrl \o parent \o ChildrenSuffix
                         /\ (parent \o <<"/">> \o calls[r][m].created) \in folders
             /\ proc[r].pc = "done"
             /\ response[r].code = 500
             /\ response[r].error # Absent

\* C6: every exception raised while a request is handled is answered by
\* the handler with 500 and the exception's message, and the call that
\* raised is not issued again.
C6_ExceptionsBecome500 ==
    \A r \in reqs :
       (proc[r].pc = "done" /\ proc[r].raised # Absent) =>
          response[r] = ErrorResponse(500, proc[r].raised)

\* no call of the request is issued twice, and a call that raised is the
\* last call of the request
NoRetry(r) ==
    /\ \A m, n \in 1..Len(calls[r]) :
          (m # n) => <<calls[r][m].op, calls[r][m].url>> # <<calls[r][n].op, calls[r][n].url>>
    /\ \A n \in 1..Len(calls[r]) : calls[r][n].status = 0 => n = Len(calls[r])

\* C6 as amended: an exception in POST /upload is answered with 500 and the
\* exception's message; an exception inside fetch_file (token, transport,
\* body that is not JSON) is caught there, fetch_file returns -1 and
\* GET /fetch answers 404 "Failed to fetch file"; no call is retried.
C6_ExceptionsByHandler ==
    \A r \in reqs :
       /\ NoRetry(r)
       /\ (proc[r].pc = "done" /\ proc[r].raised # Absent) =>
             /\ r \in Uploads => response[r] = ErrorResponse(500, proc[r].raised)
             /\ r \in Fetches =>
                   /\ proc[r].download_url = FAIL
                   /\ response[r] = ErrorResponse(404, MsgFetchFailed)

C6_Witness ==
    \E r \in Fetches :
       /\ proc[r].pc = "done"
       /\ proc[r].raised = TransportError
       /\ Len(calls[r]) = 1
       /\ response[r].code = 404

\* the answer to the metadata GET of a finished fetch_file
Answered(r) ==
    /\ r \in Fetches
    /\ proc[r].pc = "done"
    /\ Len(calls[r]) = 1
    /\ calls[r][1].status # 0

\* C7: fetch_file returns the download URL exactly when the GET is answered
\* with a 2xx status and a body that carries the URL; otherwise the kind of
\* the failure follows the answer: 404 NotFound, 401 AuthExpired, 403
\* PermissionDenied, another non-2xx status UnexpectedProviderError, a
\* success body without the URL DownloadUrlMissing.
C7_UrlExactlyOn2xx ==
    \A r \in reqs :
       Answered(r) =>
          LET status == calls[r][1].status
              body == calls[r][1].body
          IN  /\ proc[r].download_url = DownloadUrl <=>
                    (status \in 200..299 /\ body = "url")
              /\ status = 404 => proc[r].printed = "File not found"
              /\ status = 401 => proc[r].printed = "Authentication failed"
              /\ status = 403 => proc[r].printed = "Permission denied"
              /\ status \notin (200..299) \cup {401, 403, 404} =>
                    proc[r].printed = "Unexpected error"
              /\ (status \in 200..299 /\ body = "nourl") =>
                    proc[r].printed = "Download URL not found"

\* C7 as amended: fetch_file returns the download URL exactly when the GET
\* is answered 200 or 201 with a JSON body that carries the URL; otherwise
\* it returns -1 and the message it logs tells the kind: 404, 401, 403,
\* any other status outside 200/201, a body without the URL, or a caught
\* exception (a body that is not JSON); the endpoint answers 200 or 404.
C7_UrlExactlyOn200Or201 ==
    \A r \in reqs :
       Answered(r) =>
          LET status == calls[r][1].status
              body == calls[r][1].body
          IN  /\ proc[r].download_url = DownloadUrl <=>
                    (status \in {200, 201} /\ body = "url")
              /\ proc[r].download_url \in {DownloadUrl, FAIL}
              /\ proc[r].download_url = DownloadUrl => proc[r].printed = ""
              /\ status = 404 => proc[r].printed = "File not found"
              /\ status = 401 => proc[r].printed = "Authentication failed"
              /\ status = 403 => proc[r].printed = "Permission denied"
              /\ status \notin {200, 201, 401, 403, 404} =>
                    proc[r].printed = "Unexpected error"
              /\ (status \in {200, 201} /\ body = "nourl") =>
                    proc[r].printed = "Download URL not found"
              /\ (status \in {200, 201} /\ body = "nonjson") =>
                    proc[r].printed = "Error fetching file"
              /\ response[r].code \in {200, 404}

C7_Witness ==
    \E r \in reqs :
       /\ Answered(r)
       /\ calls[r][1].status = 404
       /\ proc[r].printed = "File not found"
       /\ proc[r].download_url = FAIL

\* C8: GET /fetch/<filepath> takes the last segment as filename and the
\* normalized remainder as path, issues the metadata lookup for
\* <root>/<path>/<filename>, answers 200 with download_url, filename and
\* path when the resolution succeeds and 404 "Failed to fetch file" when it
\* fails.
C8_FetchLooksUpReportedPath ==
    \A r \in Fetches :
       LET parts == Split(proc[r].filepath, "/")
           filename == parts[Len(parts)]
           remainder == Join(SubSeq(parts, 1, Len(parts) - 1), "/")
           path == clean_sharepoint_path(remainder)
       IN  /\ proc[r].filename = filename
           /\ proc[r].path = path
           /\ \A n \in 1..Len(calls[r]) :
                 /\ calls[r][n].op = "GET"
                 /\ calls[r][n].url = RootUrl \o <<"/">> \o path \o <<"/">> \o filename
           /\ proc[r].pc = "done" =>
                 IF proc[r].download_url = FAIL
                 THEN response[r] = ErrorResponse(404, MsgFetchFailed)
                 ELSE response[r] = FetchedResponse(DownloadUrl, filename, path)

\* the raw path has a leading, a trailing or a doubled separator
HasStraySeparators(p) ==
    /\ p # <<>>
    /\ \/ p[1] = "/"
       \/ p[Len(p)] = "/"
       \/ \E k \in 1..(Len(p) - 1) : p[k] = "/" /\ p[k + 1] = "/"

\* C9: clean_sharepoint_path is idempotent on every raw path with stray
\* separators, with or without the token ":/content" in it.
C9_NormalizeIdempotent ==
    (npc = "twice" /\ HasStraySeparators(raw)) => twice = once

\* the calls of request r name only the folders of the requested path
TargetsRequestedNames(r) ==
    LET d == DepthOf(proc[r].path) IN
    /\ proc[r].current_path # Absent =>
          \E j \in 0..d : proc[r].current_path = DriveRoot \o ItemPath(j)
    /\ \A n \in 1..Len(calls[r]) :
          LET c == calls[r][n] IN
          CASE c.op = "GET" -> \E j \in 1..d : c.url = RootUrl \o ItemPath(j)
            [] c.op = "POST" ->
                  \E j \in 1..d : /\ c.url = RootUrl \o ItemPath(j - 1) \o ChildrenSuffix
                                  /\ c.name = <<SegNames[j]>>
            [] c.op = "PUT" -> c.url = Locator(CanonPath(d), proc[r].filename)

\* C10: when two uploads of the same path both miss the lookup of a segment
\* and both create it, the provider renaming the second folder, each
\* resolver goes on with the requested name: every later lookup, creation
\* and PUT of both requests names the requested folders, never the renamed
\* one.
C10_RenamedFolderIgnored ==
    \A r \in Uploads : proc[r].pc # "idle" => TargetsRequestedNames(r)

\* both requests missed the lookup of "x" and created it, the second one
\* got "x 1", and went on to its PUT
C10_Witness ==
    \E a, b \in Uploads :
       /\ a # b
       /\ Len(calls[a]) >= 2 /\ Len(calls[b]) >= 3
       /\ calls[a][1].status = 404 /\ calls[b][1].status = 404
       /\ calls[a][2].op = "POST" /\ calls[a][2].created = <<"x">>
       /\ calls[b][2].op = "POST" /\ calls[b][2].created = <<"x", " ", "1">>
       /\ calls[b][Len(calls[b])].op = "PUT"
       /\ calls[b][Len(calls[b])].status = 201

====
